---- MODULE Spec2Model ----
(***************************************************************************)
(* State-machine model of src/main.py: the DataThread acquisition loop,    *)
(* the MainWindow slots that run on the GUI thread (update_data,           *)
(* handle_disconnection, attempt_reconnection, set_flow_setpoint,          *)
(* closeEvent), the queued signals between the two threads, the rolling    *)
(* deques and the CSV log.                                                 *)
(*                                                                         *)
(* Two execution contexts exist.  The DataThread is at one of the places   *)
(* of run() (pc); a place named after a device call means the thread is    *)
(* inside that blocking call.  The GUI thread is either in its event loop  *)
(* (mpc = "idle"), inside the device call of a user setpoint request       *)
(* (mpc = "set_setpoint") or blocked in DataThread.wait() (mpc =           *)
(* "close_wait").  Signals emitted by the DataThread are delivered to the  *)
(* GUI thread through a FIFO queue (Qt queued connections).                *)
(*                                                                         *)
(* Floats are modelled by integers; an averaged value is the pair          *)
(* <<sum of the window, window width>>.                                    *)
(***************************************************************************)
EXTENDS Integers, Sequences, FiniteSets, TLC

\* ---- bounds of the model -------------------------------------------------
\* capacity of the three deques (600 in the program, scaled down)
MAX_DATA_POINTS == 2
\* width of the moving average (10 in the program, scaled down)
AVERAGING_WINDOW == 2
\* number of Samples the loops may emit in one behaviour
MaxSamples == 3
\* number of newData signals that may wait in the GUI thread's queue
MaxQueue == 2
\* value at which the count of failed reconnection attempts saturates
MaxAttempts == 2
\* largest status bitmask given to the decoder (bits 0..10 are in the table)
MaxMask == 4095
\* longest deque contents given to update_graph
MaxGraphLen == 4

\* ---- values the environment can produce ----------------------------------
StatusCodes == {0, 5}
MeasuredValues == {10}
Temperatures == {25}
\* what device.get_setpoint can return at startup (60: above the GUI's range)
InitialSetpoints == {0, 60}
\* what the user can type into setpoint_input
Texts == {"-1", "0", "50", "51", "abc"}

VARIABLES
    \* DataThread
    pc,                 \* place of run(): while, status, measured, temp, sleep, done
    running,            \* DataThread.running
    status_code,        \* local of run()
    measured_value,     \* local of run()
    \* signals queued for the GUI thread
    queue,
    \* MainWindow
    mpc,                \* idle, set_setpoint, close_wait
    pending,            \* local `setpoint` of the set_flow_setpoint call in progress
    device,             \* the handle self.device: what has been applied on it
    current_setpoint,
    setpoint_input,     \* text of the QLineEdit
    controls_enabled,   \* setpoint_input / setpoint_button enabled
    status_emoji,
    error_label,
    temp_label,
    setpoint_indicator_label,
    reconnect_timer,    \* QTimer active
    status_bar,         \* message of the status bar (its 5 s expiry is not modelled)
    averaging_checkbox,
    time_data, setpoint_data, measured_data,
    measured_line, setpoint_line,
    closed,             \* closeEvent has accepted the event
    \* environment
    dev_setpoint,       \* setpoint register of the physical device
    clock,              \* datetime.now(): strictly increasing
    cwd_file,           \* os.path.isfile("<date>_sfc5500_log.csv") in the cwd
    log_file,           \* rows of log/<date>_sfc5500_log.csv
    failed_attempts     \* failed reconnection attempts since the disconnection

thread_vars == <<pc, running, status_code, measured_value>>
label_vars == <<status_emoji, error_label, temp_label, setpoint_indicator_label>>
deque_vars == <<time_data, setpoint_data, measured_data>>
graph_vars == <<measured_line, setpoint_line>>
setpoint_vars == <<pending, current_setpoint, setpoint_input, dev_setpoint>>

vars == <<pc, running, status_code, measured_value, queue, mpc, pending, device,
          current_setpoint, setpoint_input, controls_enabled,
          status_emoji, error_label, temp_label, setpoint_indicator_label,
          reconnect_timer, status_bar, averaging_checkbox, time_data,
          setpoint_data, measured_data, measured_line, setpoint_line, closed,
          dev_setpoint, clock, cwd_file, log_file, failed_attempts>>

\* ---- signals -------------------------------------------------------------
NewData(m, t, s) == <<"newData", m, t, s>>
Disconnected == <<"disconnected">>

IsNewData(e) == e[1] = "newData"

RECURSIVE CountNewData(_)
CountNewData(q) ==
    IF q = <<>> THEN 0
    ELSE (IF IsNewData(Head(q)) THEN 1 ELSE 0) + CountNewData(Tail(q))

\* ---- pure helpers --------------------------------------------------------
\* float(self.setpoint_input.text()): the value, or a ValueError
ParseFloat(text) ==
    CASE text = "-1" -> [ok |-> TRUE, value |-> 0 - 1]
      [] text = "0" -> [ok |-> TRUE, value |-> 0]
      [] text = "0.00" -> [ok |-> TRUE, value |-> 0]
      [] text = "50" -> [ok |-> TRUE, value |-> 50]
      [] text = "50.00" -> [ok |-> TRUE, value |-> 50]
      [] text = "51" -> [ok |-> TRUE, value |-> 51]
      [] text = "60.00" -> [ok |-> TRUE, value |-> 60]
      [] OTHER -> [ok |-> FALSE, value |-> 0]

\* f"{value:.2f}"
Format2f(value) ==
    CASE value = 0 -> "0.00"
      [] value = 50 -> "50.00"
      [] value = 60 -> "60.00"

\* f"Setpoint: {self.current_setpoint:.2f} sccm"
SetpointText(value) == <<"Setpoint", Format2f(value)>>

\* a mutant of InRange: the bounds excluded
InRangeExclusive(setpoint) == 0 < setpoint /\ setpoint < 50

\* the test 0 <= setpoint <= 50
InRange(setpoint) == 0 <= setpoint /\ setpoint <= 50

\* a mutant of DequeAppend: a full deque drops the new element
DequeAppendDropNewest(d, x) ==
    IF Len(d) >= MAX_DATA_POINTS THEN d ELSE Append(d, x)

\* deque(maxlen=MAX_DATA_POINTS).append(x)
DequeAppend(d, x) ==
    IF Len(d) >= MAX_DATA_POINTS THEN Append(Tail(d), x) ELSE Append(d, x)

\* MainWindow.ERROR_CODES, in definition order
ERROR_CODES ==
    << <<1, "Boot Error">>, <<2, "Cmd Post Processing Error">>,
       <<4, "Input Supply out of Range">>, <<8, "Valve Supply out of Range">>,
       <<16, "Signal Processor Init">>, <<32, "Sensor Comm Error">>,
       <<64, "Setpoint Input Error">>, <<128, "Actuator Output Error">>,
       <<256, "Signal Output Error">>, <<512, "Signal Buffer Error">>,
       <<1024, "Missing Gas Pressure">> >>

\* a mutant of BitAnd: the mask is compared with the code instead of and-ed
BitAndEquals(status, code) == IF status = code THEN code ELSE 0

\* status & code, for a code that is a power of two
BitAnd(status, code) == IF (status \div code) % 2 = 1 THEN code ELSE 0

RECURSIVE ActiveErrors(_, _)
ActiveErrors(status, table) ==
    IF table = <<>> THEN <<>>
    ELSE (IF BitAnd(status, Head(table)[1]) # 0 THEN <<Head(table)[2]>> ELSE <<>>)
         \o ActiveErrors(status, Tail(table))

parse_status(status) ==
    IF status = 0 THEN <<"Status: OK">>
    ELSE <<"Status:", ActiveErrors(status, ERROR_CODES), "Code:", status>>

RECURSIVE SumSeq(_)
SumSeq(xs) == IF xs = <<>> THEN 0 ELSE Head(xs) + SumSeq(Tail(xs))

\* a mutant of Convolve: mode 'same', one point for every source point
ConvolveSame(measured_list) ==
    [i \in 1..Len(measured_list) |->
        <<SumSeq(SubSeq(measured_list,
                        IF i - AVERAGING_WINDOW + 1 < 1 THEN 1 ELSE i - AVERAGING_WINDOW + 1,
                        i)),
          AVERAGING_WINDOW>>]

\* np.convolve(measured_list, ones(w) / w, 'valid')
Convolve(measured_list) ==
    [i \in 1..(Len(measured_list) - AVERAGING_WINDOW + 1) |->
        <<SumSeq(SubSeq(measured_list, i, i + AVERAGING_WINDOW - 1)), AVERAGING_WINDOW>>]

\* the data update_graph gives to measured_line
MeasuredLine(checked, time_list, measured_list) ==
    IF checked /\ Len(measured_list) >= AVERAGING_WINDOW
    THEN <<SubSeq(time_list, AVERAGING_WINDOW, Len(time_list)), Convolve(measured_list)>>
    ELSE <<time_list, measured_list>>

\* the data update_graph gives to setpoint_line
SetpointLine(time_list, setpoint_list) == <<time_list, setpoint_list>>

Header == <<"header">>
\* a data row [timestamp, setpoint, measured, temperature, status]; the row is
\* identified by its timestamp, the other fields are not kept
DataRow(ts, sp, m, t, s) == <<"data", ts>>

\* file_exists = os.path.isfile(filename): the bare file name, looked up in the
\* working directory, while the file that is opened is log/<filename>
FileExists == cwd_file

\* a mutant of LogAppend: the data row is written in the header branch and again
\* after it
LogAppendTwice(file, file_exists, data_row) ==
    file \o (IF ~file_exists THEN <<Header, data_row>> ELSE <<>>) \o <<data_row>>

\* the body of log_data's `with`: the rows of the file after the append
LogAppend(file, file_exists, data_row) ==
    file \o (IF ~file_exists THEN <<Header>> ELSE <<>>) \o <<data_row>>

\* ---- initial state: main() has connected, MainWindow.__init__ has run ------
Init ==
    \E initial_setpoint \in InitialSetpoints :
        \* start_data_thread(): the thread is about to test `while self.running`
        /\ pc = "while"
        /\ running = TRUE
        /\ status_code = 0
        /\ measured_value = 0
        /\ queue = <<>>
        /\ mpc = "idle"
        /\ pending = 0
        \* main() has applied the unit on the handle and read the setpoint
        /\ device = [unit |-> TRUE, setpoint |-> FALSE]
        /\ dev_setpoint = initial_setpoint
        /\ current_setpoint = initial_setpoint
        /\ setpoint_input = Format2f(initial_setpoint)
        /\ controls_enabled = TRUE
        /\ status_emoji = "ok"
        /\ error_label = <<"Status: OK">>
        /\ temp_label = <<"Temperature", "--">>
        /\ setpoint_indicator_label = SetpointText(initial_setpoint)
        /\ reconnect_timer = FALSE
        /\ status_bar = "Connected"
        \* the checkbox starts unchecked; Spec has no action that checks it
        /\ averaging_checkbox = FALSE
        /\ time_data = <<>>
        /\ setpoint_data = <<>>
        /\ measured_data = <<>>
        /\ measured_line = <<>>
        /\ setpoint_line = <<>>
        /\ closed = FALSE
        /\ clock = 0
        \* the program writes its logs under log/, never into the working directory
        /\ cwd_file = FALSE
        \* the day's log does not exist yet
        /\ log_file = <<>>
        /\ failed_attempts = 0

\* ---- DataThread.run ------------------------------------------------------
main_vars == <<mpc, pending, device, current_setpoint, setpoint_input,
               controls_enabled, status_emoji, error_label, temp_label,
               setpoint_indicator_label, reconnect_timer, status_bar,
               averaging_checkbox,
               time_data, setpoint_data, measured_data, measured_line,
               setpoint_line, closed, dev_setpoint, clock, cwd_file, log_file,
               failed_attempts>>

\* a mutant of RunExcept: the failed cycle also publishes a Sample
RunExceptEmitsSample ==
    /\ queue' = queue \o <<NewData(measured_value, 25, status_code), Disconnected>>
    /\ running' = FALSE
    /\ pc' = "done"
    /\ status_code' = 0
    /\ measured_value' = 0

\* a mutant of RunExcept: disconnected is emitted but the loop goes on (no
\* break, running left set)
RunExceptKeepsRunning ==
    /\ queue' = Append(queue, Disconnected)
    /\ running' = running
    /\ pc' = "sleep"
    /\ status_code' = 0
    /\ measured_value' = 0

\* the except branch: emit disconnected, clear running, leave the loop
RunExcept ==
    /\ queue' = Append(queue, Disconnected)
    /\ running' = FALSE
    /\ pc' = "done"
    /\ status_code' = 0
    /\ measured_value' = 0

\* `while self.running`
ThreadWhile ==
    /\ pc = "while"
    /\ pc' = IF running THEN "status" ELSE "done"
    /\ UNCHANGED <<running, status_code, measured_value, queue>>
    /\ UNCHANGED main_vars

\* self.device.read_device_status() returns or raises
ReadDeviceStatus ==
    /\ pc = "status"
    /\ \/ \E s \in StatusCodes :
            /\ status_code' = s
            /\ pc' = "measured"
            /\ UNCHANGED <<running, measured_value, queue>>
       \/ RunExcept
    /\ UNCHANGED main_vars

\* self.device.read_measured_value(USER_DEFINED) returns or raises
ReadMeasuredValue ==
    /\ pc = "measured"
    /\ \/ \E m \in MeasuredValues :
            /\ measured_value' = m
            /\ pc' = "temp"
            /\ UNCHANGED <<running, status_code, queue>>
       \/ RunExcept
    /\ UNCHANGED main_vars

\* self.device.measure_temperature() returns, and newData is emitted, or it raises.
\* The locals are dead once the signal is emitted and are cleared here.
MeasureTemperature ==
    /\ pc = "temp"
    /\ \/ \E t \in Temperatures :
            /\ CountNewData(queue) < MaxQueue
            /\ clock + CountNewData(queue) < MaxSamples
            /\ queue' = Append(queue, NewData(measured_value, t, status_code))
            /\ pc' = "sleep"
            /\ status_code' = 0
            /\ measured_value' = 0
            /\ UNCHANGED running
       \/ RunExcept
    /\ UNCHANGED main_vars

\* self.msleep(POLLING_INTERVAL_MS) returns
Msleep ==
    /\ pc = "sleep"
    /\ pc' = "while"
    /\ UNCHANGED <<running, status_code, measured_value, queue>>
    /\ UNCHANGED main_vars

\* ---- MainWindow: slots run by the GUI thread's event loop ------------------
\* a mutant of log_data: the IOError is not caught and leaves log_data
log_data_raises(data_row, io_ok) ==
    IF io_ok
    THEN [file |-> LogAppend(log_file, FileExists, data_row), raised |-> FALSE]
    ELSE [file |-> log_file, raised |-> TRUE]

\* log_data: the rows of the file afterwards, and whether an exception leaves it.
\* io_ok: open() succeeds; an IOError is caught and printed
log_data(data_row, io_ok) ==
    IF io_ok
    THEN [file |-> LogAppend(log_file, FileExists, data_row), raised |-> FALSE]
    ELSE [file |-> log_file, raised |-> FALSE]

update_data(measured, temperature, status, io_ok) ==
    LET utc_timestamp == clock + 1
        td == DequeAppend(time_data, utc_timestamp)
        sd == DequeAppend(setpoint_data, current_setpoint)
        md == DequeAppend(measured_data, measured)
        logged == log_data(DataRow(utc_timestamp, current_setpoint, measured,
                                   temperature, status), io_ok)
    IN  /\ status_emoji' = IF status = 0 THEN "ok" ELSE "error"
        /\ error_label' = parse_status(status)
        /\ clock' = utc_timestamp
        /\ time_data' = td
        /\ setpoint_data' = sd
        /\ measured_data' = md
        /\ temp_label' = <<"Temperature", temperature>>
        /\ setpoint_indicator_label' = SetpointText(current_setpoint)
        /\ log_file' = logged.file
        \* update_graph(), unless an exception left update_data before it
        /\ IF logged.raised
           THEN UNCHANGED graph_vars
           ELSE /\ measured_line' = MeasuredLine(averaging_checkbox, td, md)
                /\ setpoint_line' = SetpointLine(td, sd)

\* the event loop delivers a queued newData signal
UpdateData ==
    /\ mpc = "idle"
    /\ queue # <<>>
    /\ IsNewData(Head(queue))
    /\ \E io_ok \in BOOLEAN :
          update_data(Head(queue)[2], Head(queue)[3], Head(queue)[4], io_ok)
    /\ queue' = Tail(queue)
    /\ UNCHANGED <<thread_vars, mpc, setpoint_vars, device, controls_enabled,
                   reconnect_timer, status_bar, averaging_checkbox, closed,
                   cwd_file, failed_attempts>>

\* handle_disconnection without set_controls_enabled(False)
handle_disconnection_keeps_controls ==
    /\ controls_enabled' = controls_enabled
    /\ status_emoji' = "disconnected"
    /\ error_label' = <<"Status: Disconnected">>
    /\ status_bar' = "Disconnected! Attempting to reconnect..."
    /\ reconnect_timer' = TRUE

handle_disconnection ==
    /\ controls_enabled' = FALSE
    /\ status_emoji' = "disconnected"
    /\ error_label' = <<"Status: Disconnected">>
    /\ status_bar' = "Disconnected! Attempting to reconnect..."
    /\ reconnect_timer' = TRUE

\* a disconnected signal delivered ahead of the Samples queued before it
HandleDisconnectionOutOfOrder ==
    /\ mpc = "idle"
    /\ \E i \in 1..Len(queue) :
          /\ queue[i] = Disconnected
          /\ queue' = SubSeq(queue, 1, i - 1) \o SubSeq(queue, i + 1, Len(queue))
    /\ handle_disconnection
    /\ failed_attempts' = 0
    /\ UNCHANGED <<thread_vars, mpc, setpoint_vars, device, temp_label,
                   setpoint_indicator_label, averaging_checkbox, deque_vars,
                   graph_vars, closed, clock, cwd_file, log_file>>

\* the event loop delivers a queued disconnected signal
HandleDisconnection ==
    /\ mpc = "idle"
    /\ queue # <<>>
    /\ Head(queue) = Disconnected
    /\ handle_disconnection
    /\ queue' = Tail(queue)
    /\ failed_attempts' = 0
    /\ UNCHANGED <<thread_vars, mpc, setpoint_vars, device, temp_label,
                   setpoint_indicator_label, averaging_checkbox, deque_vars,
                   graph_vars, closed, clock, cwd_file, log_file>>

\* ---- set_flow_setpoint ----------------------------------------------------
\* The user types `text` and presses Set (force=False).  A text that float()
\* rejects and a value out of range end the call with a warning; a value in
\* range enters device.set_setpoint, in which the GUI thread blocks.
UserSetFlowSetpoint ==
    /\ mpc = "idle"
    /\ controls_enabled
    /\ ~closed
    /\ \E text \in Texts :
          LET parsed == ParseFloat(text) IN
          /\ setpoint_input' = text
          /\ IF parsed.ok /\ InRange(parsed.value)
             THEN /\ mpc' = "set_setpoint"
                  /\ pending' = parsed.value
             ELSE \* QMessageBox.warning, nothing else
                  UNCHANGED <<mpc, pending>>
    /\ UNCHANGED <<thread_vars, queue, device, current_setpoint, controls_enabled,
                   label_vars, reconnect_timer, status_bar, averaging_checkbox,
                   deque_vars, graph_vars, closed, dev_setpoint, clock, cwd_file,
                   log_file, failed_attempts>>

\* set_flow_setpoint storing the requested value although set_setpoint raised
SetSetpointReturnStoresOnFailure ==
    /\ mpc = "set_setpoint"
    /\ \E ok \in BOOLEAN :
          /\ IF ok
             THEN /\ dev_setpoint' = pending
                  /\ device' = [device EXCEPT !.setpoint = TRUE]
             ELSE UNCHANGED <<dev_setpoint, device>>
          /\ current_setpoint' = pending
          /\ setpoint_indicator_label' = SetpointText(pending)
    /\ mpc' = "idle"
    /\ pending' = 0
    /\ UNCHANGED <<thread_vars, queue, setpoint_input, controls_enabled,
                   status_emoji, error_label, temp_label, reconnect_timer,
                   status_bar, averaging_checkbox, deque_vars, graph_vars, closed,
                   clock, cwd_file, log_file, failed_attempts>>

\* device.set_setpoint of the user's request returns (ok) or raises
SetSetpointReturn ==
    /\ mpc = "set_setpoint"
    /\ \E ok \in BOOLEAN :
          IF ok
          THEN /\ dev_setpoint' = pending
               /\ device' = [device EXCEPT !.setpoint = TRUE]
               /\ current_setpoint' = pending
               /\ setpoint_indicator_label' = SetpointText(pending)
          ELSE \* QMessageBox.warning, nothing else
               UNCHANGED <<dev_setpoint, device, current_setpoint,
                           setpoint_indicator_label>>
    /\ mpc' = "idle"
    /\ pending' = 0
    /\ UNCHANGED <<thread_vars, queue, setpoint_input, controls_enabled,
                   status_emoji, error_label, temp_label, reconnect_timer,
                   status_bar, averaging_checkbox, deque_vars, graph_vars, closed,
                   clock, cwd_file, log_file, failed_attempts>>

\* ---- attempt_reconnection ------------------------------------------------
\* the calls of attempt_reconnection that can raise, in order, and "none"
Raises == {"ShdlcSerialPort", "get_serial_number", "set_user_unit", "set_setpoint", "none"}

Min(a, b) == IF a < b THEN a ELSE b

\* a mutant of TimerAfterAttempt: the timer is never stopped
TimerAfterAttemptNeverStopped(raised) == reconnect_timer

\* reconnect_timer.stop() stands after get_serial_number and before set_user_unit
TimerAfterAttempt(raised) ==
    IF raised \in {"ShdlcSerialPort", "get_serial_number"} THEN reconnect_timer ELSE FALSE

\* self.device after the attempt: a fresh handle unless the port did not open
DeviceAfterAttempt(raised) ==
    CASE raised = "ShdlcSerialPort" -> device
      [] raised = "get_serial_number" -> [unit |-> FALSE, setpoint |-> FALSE]
      [] raised = "set_user_unit" -> [unit |-> FALSE, setpoint |-> FALSE]
      [] raised = "set_setpoint" -> [unit |-> TRUE, setpoint |-> FALSE]
      [] OTHER -> [unit |-> TRUE, setpoint |-> InRange(current_setpoint)]

\* start_data_thread(): a new DataThread, controls enabled
start_data_thread ==
    /\ pc' = "while"
    /\ running' = TRUE
    /\ status_code' = 0
    /\ measured_value' = 0
    /\ controls_enabled' = TRUE
    /\ status_emoji' = "ok"
    /\ status_bar' = "Connected"

\* raised: the call that raises in this attempt.  set_flow_setpoint(force=True)
\* catches what set_setpoint raises, so start_data_thread() follows it.
attempt_reconnection(raised) ==
    /\ device' = DeviceAfterAttempt(raised)
    /\ reconnect_timer' = TimerAfterAttempt(raised)
    /\ IF raised \in {"ShdlcSerialPort", "get_serial_number", "set_user_unit"}
       THEN /\ status_bar' = "Reconnect failed. Retrying..."
            /\ failed_attempts' = Min(failed_attempts + 1, MaxAttempts)
            /\ UNCHANGED <<thread_vars, controls_enabled, status_emoji,
                           dev_setpoint>>
       ELSE /\ dev_setpoint' = IF InRange(current_setpoint) /\ raised = "none"
                               THEN current_setpoint
                               ELSE dev_setpoint
            /\ start_data_thread
            /\ UNCHANGED failed_attempts
    /\ setpoint_indicator_label' = setpoint_indicator_label
    /\ UNCHANGED <<pending, current_setpoint, setpoint_input>>

\* reconnect_timer.timeout.  The interval is RECONNECTION_INTERVAL_MS; once
\* closeEvent has accepted the close of the only window, app.exec() returns and
\* main() leaves through sys.exit, so no timeout is delivered after that.
TimerFire ==
    /\ mpc = "idle"
    /\ ~closed
    /\ reconnect_timer
    /\ \E raised \in Raises : attempt_reconnection(raised)
    /\ UNCHANGED <<queue, mpc, error_label, temp_label, averaging_checkbox,
                   deque_vars, graph_vars, closed, clock, cwd_file, log_file>>

\* ---- closeEvent ----------------------------------------------------------
\* reconnect_timer.stop(); data_thread.stop() clears running and waits
CloseEventBegin ==
    /\ mpc = "idle"
    /\ ~closed
    /\ reconnect_timer' = FALSE
    /\ running' = FALSE
    /\ mpc' = "close_wait"
    /\ UNCHANGED <<pc, status_code, measured_value, queue, setpoint_vars, device,
                   controls_enabled, label_vars, status_bar, averaging_checkbox,
                   deque_vars, graph_vars, closed, clock, cwd_file, log_file,
                   failed_attempts>>

\* closeEvent letting the exception of set_setpoint(0) escape: the handler ends
\* without event.accept()
CloseEventFinishRaises ==
    /\ mpc = "close_wait"
    /\ pc = "done"
    /\ \E ok \in BOOLEAN :
          IF ok
          THEN /\ dev_setpoint' = 0
               /\ device' = [device EXCEPT !.setpoint = TRUE]
               /\ closed' = TRUE
          ELSE UNCHANGED <<dev_setpoint, device, closed>>
    /\ mpc' = "idle"
    /\ UNCHANGED <<thread_vars, queue, pending, current_setpoint, setpoint_input,
                   controls_enabled, label_vars, reconnect_timer,
                   status_bar, averaging_checkbox, deque_vars, graph_vars, clock,
                   cwd_file, log_file, failed_attempts>>

\* closeEvent going on to set_setpoint(0) without waiting for run() to return
CloseEventFinishNoWait ==
    /\ mpc = "close_wait"
    /\ \E ok \in BOOLEAN :
          IF ok
          THEN /\ dev_setpoint' = 0
               /\ device' = [device EXCEPT !.setpoint = TRUE]
          ELSE UNCHANGED <<dev_setpoint, device>>
    /\ closed' = TRUE
    /\ mpc' = "idle"
    /\ UNCHANGED <<thread_vars, queue, pending, current_setpoint, setpoint_input,
                   controls_enabled, label_vars, reconnect_timer,
                   status_bar, averaging_checkbox, deque_vars, graph_vars, clock,
                   cwd_file, log_file, failed_attempts>>

\* wait() returns once run() has returned; set_setpoint(0) and device_reset()
\* follow, what they raise is printed, and the event is accepted.  device_reset
\* changes nothing that the model holds.
CloseEventFinish ==
    /\ mpc = "close_wait"
    /\ pc = "done"
    /\ \E ok \in BOOLEAN :
          IF ok
          THEN /\ dev_setpoint' = 0
               /\ device' = [device EXCEPT !.setpoint = TRUE]
          ELSE UNCHANGED <<dev_setpoint, device>>
    /\ closed' = TRUE
    /\ mpc' = "idle"
    /\ UNCHANGED <<thread_vars, queue, pending, current_setpoint, setpoint_input,
                   controls_enabled, label_vars, reconnect_timer,
                   status_bar, averaging_checkbox, deque_vars, graph_vars, clock,
                   cwd_file, log_file, failed_attempts>>

\* ---- specification -------------------------------------------------------
Next ==
    \/ ThreadWhile
    \/ ReadDeviceStatus
    \/ ReadMeasuredValue
    \/ MeasureTemperature
    \/ Msleep
    \/ UpdateData
    \/ HandleDisconnection
    \/ UserSetFlowSetpoint
    \/ SetSetpointReturn
    \/ TimerFire
    \/ CloseEventBegin
    \/ CloseEventFinish

Spec == Init /\ [][Next]_vars

\* ---- connection state as the GUI thread holds it ---------------------------
\* Connected: between start_data_thread() and handle_disconnection(), which
\* enable and disable the setpoint controls
Connected == controls_enabled

\* the DataThread is inside one of its three device reads
Reading == pc \in {"status", "measured", "temp"}

\* closeEvent has begun
ShutdownBegun == closed \/ mpc = "close_wait"

\* a step in which attempt_reconnection reaches start_data_thread()
ReconnectedStep == reconnect_timer /\ ~controls_enabled /\ controls_enabled'

\* ---- C1 ------------------------------------------------------------------
\* C1: a poll cycle in which one of the three reads raises (the thread leaves a
\* read for "done") appends exactly the disconnected signal to the queue, no
\* newData, and ends the loop; and the delivery of a disconnected signal
\* (handle_disconnection) disables the controls, shows the disconnected state
\* and arms the reconnection timer.
C1_FaultCycleEmitsNoSample ==
    [][ /\ (Reading /\ pc' = "done")
            => (queue' = Append(queue, Disconnected) /\ ~running')
        /\ (queue # <<>> /\ Head(queue) = Disconnected /\ queue' = Tail(queue))
            => (~Connected' /\ reconnect_timer' /\ status_emoji' = "disconnected"
                /\ UNCHANGED <<deque_vars, log_file, clock>>)
      ]_vars

\* C1 witness: a Sample was processed, then a read failed and the disconnection
\* has been handled
C1_Witness ==
    /\ pc = "done"
    /\ ~running
    /\ queue = <<>>
    /\ clock = 1
    /\ status_emoji = "disconnected"
    /\ reconnect_timer
    /\ ~ShutdownBegun

\* ---- C2 ------------------------------------------------------------------
\* C2: a reconnection attempt that succeeds stops the timer and starts exactly
\* one new loop (the previous one has ended, the new one is at its first
\* `while self.running` with running set); while disconnected the thread's state
\* changes in no other way, so failed attempts start nothing; and the timer is
\* never armed while Connected, so no further attempt fires.
C2_ReconnectOnce ==
    [][ /\ ReconnectedStep
            => (~reconnect_timer' /\ pc = "done" /\ pc' = "while" /\ running')
        /\ (~Connected /\ thread_vars' # thread_vars) => ReconnectedStep
        /\ Connected' => ~reconnect_timer'
      ]_vars

\* C2 witness: MaxAttempts failed attempts, then a success, and the new loop has
\* emitted a Sample
C2_Witness ==
    /\ failed_attempts = MaxAttempts
    /\ Connected
    /\ ~reconnect_timer
    /\ pc = "sleep"
    /\ queue # <<>>
    /\ ~ShutdownBegun

\* ---- C3 ------------------------------------------------------------------
\* C3: in every state that is Disconnected and in which shutdown has not begun,
\* the reconnection timer is armed.
C3_TimerArmedWhileDisconnected ==
    (~Connected /\ ~ShutdownBegun) => reconnect_timer

\* ---- C4 ------------------------------------------------------------------
\* C4: the GUI thread is never inside a device call while the DataThread is
\* inside a device read.
C4_SingleOwner == ~(mpc = "set_setpoint" /\ Reading)

\* ---- C5 ------------------------------------------------------------------
\* C5: the day's log file, once it exists, has the header as its first row and
\* nowhere else.
C5_HeaderExactlyOnce ==
    log_file # <<>> =>
        /\ log_file[1] = Header
        /\ \A i \in 2..Len(log_file) : log_file[i] # Header

\* ---- C6 ------------------------------------------------------------------
\* a step in which the GUI thread handles a user request (every such step that
\* changes the state: it changes the text or enters the device call)
UserRequestStep ==
    mpc = "idle" /\ (setpoint_input' # setpoint_input \/ mpc' = "set_setpoint")

\* the user's request with the typed value v: the device write is entered
\* exactly when v is a number with 0 <= v <= 50, and the request itself changes
\* neither current_setpoint nor the device
RequestEntersWriteIffInRange ==
    UserRequestStep =>
        LET v == ParseFloat(setpoint_input') IN
        /\ (v.ok /\ 0 <= v.value /\ v.value <= 50)
              <=> (mpc' = "set_setpoint" /\ pending' = v.value)
        /\ (mpc' = "set_setpoint" \/ (mpc' = "idle" /\ pending' = pending))
        /\ UNCHANGED <<current_setpoint, dev_setpoint, device>>

\* the device write of a user request returns
WriteReturnStep == mpc = "set_setpoint" /\ mpc' = "idle"

\* C6 as stated: a request is accepted (on the device and in current_setpoint)
\* exactly when 0 <= v <= 50, and a rejected one writes and changes nothing.
C6_AcceptedIffInRange ==
    [][ /\ RequestEntersWriteIffInRange
        /\ WriteReturnStep => (current_setpoint' = pending /\ dev_setpoint' = pending)
      ]_vars

\* C6 as amended: the device write is attempted exactly when 0 <= v <= 50, a
\* rejected request writes and changes nothing, and the value is stored in
\* current_setpoint exactly when the device took it: when set_setpoint raises,
\* current_setpoint and the device keep their values.
C6_AcceptedIffInRangeAndWritten ==
    [][ /\ RequestEntersWriteIffInRange
        /\ WriteReturnStep =>
              \/ (current_setpoint' = pending /\ dev_setpoint' = pending)
              \/ UNCHANGED <<current_setpoint, dev_setpoint>>
      ]_vars

\* C6 witness: the boundary value 50 has been requested and accepted, from
\* another setpoint
C6_Witness ==
    /\ setpoint_input = "50"
    /\ mpc = "idle"
    /\ current_setpoint = 50
    /\ dev_setpoint = 50
    /\ setpoint_indicator_label = SetpointText(50)
    /\ \E i \in 1..Len(setpoint_data) : setpoint_data[i] # 50

\* ---- C7 ------------------------------------------------------------------
\* C7: the deques never exceed MAX_DATA_POINTS, and they hold the most recent
\* pushes in acquisition order (timestamps are 1..clock in the order of
\* arrival): after more pushes than the capacity the oldest ones are gone.
C7_BoundedFifo ==
    LET n == Min(clock, MAX_DATA_POINTS) IN
    /\ Len(time_data) <= MAX_DATA_POINTS
    /\ time_data = [i \in 1..n |-> clock - n + i]
    /\ Len(setpoint_data) = n
    /\ Len(measured_data) = n

\* C7 witness: capacity + 1 pushes have been made, the first one is evicted
C7_Witness ==
    /\ clock = MAX_DATA_POINTS + 1
    /\ Len(time_data) = MAX_DATA_POINTS
    /\ \A i \in 1..Len(time_data) : time_data[i] # 1

\* ---- C8 ------------------------------------------------------------------
\* C8: once closeEvent has begun the reconnection timer is not armed.
C8_TimerStaysCancelled == ShutdownBegun => ~reconnect_timer

\* ---- C9 ------------------------------------------------------------------
\* update_data runs and the log append fails: a timestamp is taken and the
\* file is left as it was
LogFailureStep == clock' = clock + 1 /\ log_file' = log_file

\* C9: when the log append of a Sample fails, the Sample is still pushed to the
\* three deques and shown (labels and both graph lines refreshed from the new
\* deques), the connection state and the timer are unchanged and the
\* DataThread is untouched.
C9_LogFailureNonFatal ==
    [][ LogFailureStep =>
          /\ time_data'[Len(time_data')] = clock'
          /\ measured_data'[Len(measured_data')] = Head(queue)[2]
          /\ setpoint_data'[Len(setpoint_data')] = current_setpoint
          /\ setpoint_line' = <<time_data', setpoint_data'>>
          /\ measured_line'[1][Len(measured_line'[1])] = clock'
          /\ temp_label' = <<"Temperature", Head(queue)[3]>>
          /\ status_emoji' \in {"ok", "error"}
          /\ UNCHANGED <<controls_enabled, reconnect_timer, thread_vars, mpc, closed>>
      ]_vars

\* C9 witness: the log append of the first Sample failed, the second Sample was
\* processed and logged, both are in the deques, still Connected
C9_Witness ==
    /\ time_data = <<1, 2>>
    /\ log_file = <<Header, DataRow(2, 0, 0, 0, 0)>>
    /\ setpoint_line = <<time_data, setpoint_data>>
    /\ Connected
    /\ running
    /\ ~reconnect_timer

\* ---- C10 -----------------------------------------------------------------
\* C10: when a reconnection attempt ends in Connected, the unit has been
\* applied and current_setpoint, unchanged by the attempt, has been written
\* successfully on the fresh handle, so the device holds current_setpoint.
C10_ConfigurationRestored ==
    [][ ReconnectedStep =>
          /\ device'.unit
          /\ device'.setpoint
          /\ current_setpoint' = current_setpoint
          /\ dev_setpoint' = current_setpoint'
      ]_vars

\* ---- C11 -----------------------------------------------------------------
\* The status decoder on every bitmask: the window has just started, the
\* DataThread has emitted its first Sample, whose status is any mask up to
\* MaxMask, and sleeps (its locals still hold the cycle's values); update_data
\* then decodes the status into error_label.
InitDecode ==
    \E m \in 0..MaxMask, initial_setpoint \in InitialSetpoints :
        /\ pc = "sleep"
        /\ running = TRUE
        /\ status_code = m
        /\ measured_value = 10
        /\ queue = <<NewData(10, 25, m)>>
        /\ mpc = "idle"
        /\ pending = 0
        /\ device = [unit |-> TRUE, setpoint |-> FALSE]
        /\ dev_setpoint = initial_setpoint
        /\ current_setpoint = initial_setpoint
        /\ setpoint_input = Format2f(initial_setpoint)
        /\ controls_enabled = TRUE
        /\ status_emoji = "ok"
        /\ error_label = <<"Status: OK">>
        /\ temp_label = <<"Temperature", "--">>
        /\ setpoint_indicator_label = SetpointText(initial_setpoint)
        /\ reconnect_timer = FALSE
        /\ status_bar = "Connected"
        /\ averaging_checkbox = FALSE
        /\ time_data = <<>>
        /\ setpoint_data = <<>>
        /\ measured_data = <<>>
        /\ measured_line = <<>>
        /\ setpoint_line = <<>>
        /\ closed = FALSE
        /\ clock = 0
        /\ cwd_file = FALSE
        /\ log_file = <<>>
        /\ failed_attempts = 0

NextDecode == UpdateData

SpecDecode == InitDecode /\ [][NextDecode]_vars

\* bit k of the mask m is set
BitSet(m, k) == (m \div (2 ^ k)) % 2 = 1

\* the table entries whose bit is set in m, in table order, as descriptions
FaultsOf(m) ==
    LET set == SelectSeq(ERROR_CODES,
                         LAMBDA e : \E k \in 0..10 : e[1] = 2 ^ k /\ BitSet(m, k))
    IN  [i \in 1..Len(set) |-> set[i][2]]

\* C11: once the Sample is processed, error_label is the nominal text when the
\* mask is 0 and otherwise lists exactly the descriptions of the table bits set
\* in the mask, in table order (as many as there are such bits; bits above the
\* table add nothing), and the emoji is "ok" exactly for mask 0.
C11_StatusDecode ==
    clock = 1 =>
        /\ (status_code = 0) => error_label = <<"Status: OK">>
        /\ (status_code # 0) =>
              /\ error_label = <<"Status:", FaultsOf(status_code), "Code:", status_code>>
              /\ Len(error_label[2]) = Cardinality({k \in 0..10 : BitSet(status_code, k)})
        /\ (status_emoji = "ok") <=> (status_code = 0)

\* C11 witness: mask 2053 = 2048 + 4 + 1 (an unknown bit and table bits 1 and 4)
\* has been decoded
C11_Witness ==
    /\ clock = 1
    /\ status_code = 2053
    /\ error_label = <<"Status:", <<"Boot Error", "Input Supply out of Range">>,
                       "Code:", 2053>>

\* ---- C12 -----------------------------------------------------------------
\* measured values of the Samples given to update_graph
GraphValues == {10, 20, 40}

\* averaging_checkbox.stateChanged -> update_graph
ToggleAveraging ==
    /\ mpc = "idle"
    /\ ~closed
    /\ averaging_checkbox' = ~averaging_checkbox
    /\ measured_line' = MeasuredLine(averaging_checkbox', time_data, measured_data)
    /\ setpoint_line' = SetpointLine(time_data, setpoint_data)
    /\ UNCHANGED <<thread_vars, queue, mpc, setpoint_vars, device, controls_enabled,
                   label_vars, reconnect_timer, status_bar, deque_vars, closed,
                   clock, cwd_file, log_file, failed_attempts>>

\* update_graph on every deque contents up to MaxGraphLen Samples: n Samples
\* have been processed (timestamps 1..n, any measured values), the DataThread
\* sleeps, and the user checks and unchecks the averaging checkbox.
InitGraph ==
    \E n \in 0..MaxGraphLen, initial_setpoint \in {0} :
    \E measured \in [1..n -> GraphValues] :
        /\ pc = "sleep"
        /\ running = TRUE
        /\ status_code = 0
        /\ measured_value = 0
        /\ queue = <<>>
        /\ mpc = "idle"
        /\ pending = 0
        /\ device = [unit |-> TRUE, setpoint |-> FALSE]
        /\ dev_setpoint = initial_setpoint
        /\ current_setpoint = initial_setpoint
        /\ setpoint_input = Format2f(initial_setpoint)
        /\ controls_enabled = TRUE
        /\ status_emoji = "ok"
        /\ error_label = <<"Status: OK">>
        /\ temp_label = IF n = 0 THEN <<"Temperature", "--">> ELSE <<"Temperature", 25>>
        /\ setpoint_indicator_label = SetpointText(initial_setpoint)
        /\ reconnect_timer = FALSE
        /\ status_bar = "Connected"
        /\ averaging_checkbox = FALSE
        /\ time_data = [i \in 1..n |-> i]
        /\ setpoint_data = [i \in 1..n |-> initial_setpoint]
        /\ measured_data = measured
        /\ measured_line = IF n = 0 THEN <<>> ELSE <<time_data, measured_data>>
        /\ setpoint_line = IF n = 0 THEN <<>> ELSE <<time_data, setpoint_data>>
        /\ closed = FALSE
        /\ clock = n
        /\ cwd_file = FALSE
        /\ log_file = <<>>
        /\ failed_attempts = 0

NextGraph == ToggleAveraging

SpecGraph == InitGraph /\ [][NextGraph]_vars

\* xs[a] + ... + xs[b]
RECURSIVE RangeSum(_, _, _)
RangeSum(xs, a, b) == IF a > b THEN 0 ELSE xs[b] + RangeSum(xs, a, b - 1)

\* C12: with n measured values and window w, a graph that has been drawn shows
\* the raw series unless the checkbox is checked and n >= w; then it shows
\* exactly n - w + 1 points, the i-th being the mean of the measured values
\* i .. i+w-1 (their sum over w) at the timestamp of the source point i+w-1,
\* so the first w-1 source points have no output point.
C12_MovingAverage ==
    LET n == Len(measured_data)
        w == AVERAGING_WINDOW
    IN  measured_line # <<>> =>
          IF averaging_checkbox /\ n >= w
          THEN /\ Len(measured_line[2]) = n - w + 1
               /\ Len(measured_line[1]) = n - w + 1
               /\ \A i \in 1..(n - w + 1) :
                     /\ measured_line[2][i] = <<RangeSum(measured_data, i, i + w - 1), w>>
                     /\ measured_line[1][i] = time_data[i + w - 1]
          ELSE measured_line = <<time_data, measured_data>>

\* C12 witness: averaging is on over w + 1 values and gives two different means
C12_Witness ==
    /\ averaging_checkbox
    /\ Len(measured_data) = AVERAGING_WINDOW + 1
    /\ Len(measured_line[2]) = 2
    /\ measured_line[2][1] # measured_line[2][2]
    /\ measured_line[1] = <<AVERAGING_WINDOW, AVERAGING_WINDOW + 1>>

\* ---- C13 -----------------------------------------------------------------
\* the timestamps of the data rows of a file, in file order
RECURSIVE RowStamps(_)
RowStamps(file) ==
    IF file = <<>> THEN <<>>
    ELSE (IF Head(file) = Header THEN <<>> ELSE <<Head(file)[2]>>) \o RowStamps(Tail(file))

\* xs is strictly increasing and stays within 1..hi
Increasing(xs, hi) ==
    /\ \A i \in 1..Len(xs) : 1 <= xs[i] /\ xs[i] <= hi
    /\ \A i \in 1..(Len(xs) - 1) : xs[i] < xs[i + 1]

LoopStartStep ==
    \/ ReconnectedStep
    \/ (pc' = "while" /\ pc \notin {"sleep", "while"})
    \/ (running' /\ ~running)

\* C14: a DataThread is started only when the previous one has left run() for
\* good (it is "done" with running cleared), and the reconnection timer, whose
\* firing is the only thing that starts one, is armed only while no loop is
\* alive; so never two loops read the device.
C14_OneLoopAtATime ==
    [][ /\ LoopStartStep => (pc = "done" /\ ~running)
        /\ reconnect_timer' => (pc' = "done" /\ ~running')
      ]_vars

\* C14 witness: after a failed and then a successful attempt the new loop is
\* inside a device read
C14_Witness ==
    /\ failed_attempts >= 1
    /\ Connected
    /\ running
    /\ pc = "measured"
    /\ ~ShutdownBegun

\* ---- C15 -----------------------------------------------------------------
\* closeEvent leaves wait() and goes on to set_setpoint(0)
CloseWriteStep == mpc = "close_wait" /\ mpc' = "idle"

\* C15: closeEvent's zero-setpoint write starts only after the loop has exited,
\* and from then on no loop reads the device and no Sample is emitted.
C15_NoSampleAfterClose ==
    [][ /\ CloseWriteStep => (pc = "done" /\ ~running /\ pc' = "done")
        /\ closed => (~Reading' /\ CountNewData(queue') <= CountNewData(queue))
      ]_vars

\* the window was closed while the loop was still polling a connected device,
\* and the zero setpoint reached the device
C15_Witness ==
    /\ closed
    /\ Connected
    /\ pc = "done"
    /\ clock >= 1
    /\ current_setpoint = 60
    /\ dev_setpoint = 0

\* ---- C16 -----------------------------------------------------------------
\* The DataThread is scheduled until run() returns, and closeEvent, once wait()
\* can return, goes on to its end.
FairSpec ==
    /\ Spec
    /\ WF_vars(ThreadWhile)
    /\ WF_vars(ReadDeviceStatus)
    /\ WF_vars(ReadMeasuredValue)
    /\ WF_vars(MeasureTemperature)
    /\ WF_vars(Msleep)
    /\ WF_vars(CloseEventFinish)

\* C16: a shutdown that has begun always completes, with the timer cancelled
\* and the loop stopped, whether or not the zero-setpoint write succeeded.
C16_ShutdownCompletes ==
    (mpc = "close_wait") ~>
        (closed /\ mpc = "idle" /\ ~reconnect_timer /\ pc = "done" /\ ~running)

\* the window is closed although the zero-setpoint write failed
C16_Witness ==
    /\ closed
    /\ mpc = "idle"
    /\ dev_setpoint = 60
    /\ ~reconnect_timer
    /\ pc = "done"
    /\ ~running

\* ---- C17 -----------------------------------------------------------------
\* the status bar says "Connected" from start_data_thread() until
\* handle_disconnection()
BarConnected == status_bar = "Connected"

TimerFireReconnects == TimerFire /\ controls_enabled'

\* Queued signals are delivered, the timer fires while it is armed, and the
\* transport succeeds from some point on: an attempt that can succeed again
\* and again does succeed.
RecoverySpec ==
    /\ Spec
    /\ WF_vars(HandleDisconnection)
    /\ WF_vars(TimerFire)
    /\ SF_vars(TimerFireReconnects)

\* C18: from Disconnected the system comes back to Connected with a loop
\* running, unless it is shut down, however the attempts before failed.
C18_EventuallyReconnected ==
    (~Connected /\ ~ShutdownBegun) ~> ((Connected /\ running) \/ ShutdownBegun)

C20_CurrentSetpointIsLastAccepted ==
    /\ [](~closed => current_setpoint = dev_setpoint)
    /\ [][ /\ current_setpoint' # current_setpoint =>
                (WriteReturnStep /\ current_setpoint' = pending
                 /\ dev_setpoint' = pending /\ InRange(pending))
           /\ (WriteReturnStep /\ dev_setpoint' # pending) =>
                (current_setpoint' = current_setpoint
                 /\ setpoint_indicator_label' = setpoint_indicator_label)
           /\ (UserRequestStep /\ mpc' = "idle") =>
                current_setpoint' = current_setpoint
         ]_vars

\* the write of the request "50" failed at the device: the setpoint is still 0
C20_Witness ==
    /\ setpoint_input = "50"
    /\ mpc = "idle"
    /\ current_setpoint = 0
    /\ dev_setpoint = 0
    /\ setpoint_indicator_label = SetpointText(0)
    /\ ~closed

====
